---- MODULE Spec2Model ----
(***************************************************************************)
(* MiniCash (src/app.py): a Flask application over three relations         *)
(* (users, categories, transactions).  Every HTTP handler that reads or    *)
(* writes the store is an action; the principal of a request is the        *)
(* current_user that flask-login loads for it (login and logout touch only *)
(* the session cookie and are not modelled).                               *)
(*                                                                         *)
(* Representation:                                                         *)
(*   - a form field is None (absent) or Some(v); text is a sequence of     *)
(*     one-character strings, so that parsing is modelled as parsing;      *)
(*   - a Decimal is [coef, scale] (coef / 10^scale), exact;                *)
(*   - a Numeric(14,2) column holds an integer number of cents;            *)
(*   - a date is <<year, month, day>>; a DateTime column is kept at day    *)
(*     granularity (every comparison in the code is against a midnight).   *)
(***************************************************************************)
EXTENDS Integers, Sequences, FiniteSets, TLC

\* --------------------------------------------------------------- bounds
MaxUsers == 2
MaxTx == 2
MaxInflight == 2
MaxTxTop == 6

\* ------------------------------------------------------ optional values
None == <<>>
Some(v) == <<v>>
IsNone(o) == o = <<>>
Get(o) == o[1]

\* ------------------------------------------------------------ text
Digits == {"0", "1", "2", "3", "4", "5", "6", "7", "8", "9"}

DigitVal(c) ==
    CASE c = "0" -> 0 [] c = "1" -> 1 [] c = "2" -> 2 [] c = "3" -> 3
      [] c = "4" -> 4 [] c = "5" -> 5 [] c = "6" -> 6 [] c = "7" -> 7
      [] c = "8" -> 8 [] c = "9" -> 9

AllDigits(s) == \A i \in 1..Len(s) : s[i] \in Digits

RECURSIVE ToNat(_)
ToNat(s) ==
    IF s = <<>> THEN 0
    ELSE ToNat(SubSeq(s, 1, Len(s) - 1)) * 10 + DigitVal(s[Len(s)])

RECURSIVE StrRemove(_, _)
\* str.replace(c, "")
StrRemove(s, c) ==
    IF s = <<>> THEN <<>>
    ELSE IF Head(s) = c THEN StrRemove(Tail(s), c)
    ELSE <<Head(s)>> \o StrRemove(Tail(s), c)

\* str.replace(a, b) for single characters
StrReplace(s, a, b) == [i \in 1..Len(s) |-> IF s[i] = a THEN b ELSE s[i]]

RECURSIVE Pow10(_)
Pow10(n) == IF n = 0 THEN 1 ELSE 10 * Pow10(n - 1)

\* ---------------------------------------------------------- decimals
Invalid == [ok |-> FALSE, coef |-> 0, scale |-> 0]

\* decimal.Decimal(text) on the alphabet sign, digit, point: an optional
\* sign, then digits with at most one point and at least one digit.
\* Anything else raises InvalidOperation.
PyDecimal(s) ==
    LET signed == Len(s) > 0 /\ s[1] \in {"+", "-"}
        body   == IF signed THEN Tail(s) ELSE s
        dots   == {i \in 1..Len(body) : body[i] = "."}
        dot    == IF dots = {} THEN Len(body) + 1 ELSE CHOOSE i \in dots : TRUE
        intp   == SubSeq(body, 1, dot - 1)
        frac   == SubSeq(body, dot + 1, Len(body))
        mag    == ToNat(intp \o frac)
    IN  IF /\ Cardinality(dots) <= 1
           /\ AllDigits(intp) /\ AllDigits(frac)
           /\ Len(intp) + Len(frac) >= 1
        THEN [ok |-> TRUE,
              coef |-> IF signed /\ s[1] = "-" THEN 0 - mag ELSE mag,
              scale |-> Len(frac)]
        ELSE Invalid

\* parse_decimal: None raises InvalidOperation("empty"); otherwise spaces
\* are removed, commas become points, and the text goes to Decimal().
parse_decimal(raw) ==
    IF IsNone(raw) THEN Invalid
    ELSE PyDecimal(StrReplace(StrRemove(Get(raw), " "), ",", "."))

\* amount <= 0 on a Decimal
NonPositive(dec) == dec.coef <= 0

\* What a Numeric(14, 2) column holds after a Decimal is written to it:
\* the value rounded to 2 decimal places, ties away from zero, in cents.
\* (Values of 10^12 and more are refused by the store; the inputs of this
\* model stay far below.)
ToNumeric(dec) ==
    IF dec.scale <= 2 THEN dec.coef * Pow10(2 - dec.scale)
    ELSE LET div == Pow10(dec.scale - 2)
             mag == IF dec.coef < 0 THEN 0 - dec.coef ELSE dec.coef
             q   == mag \div div
             r   == mag % div
             rnd == IF 2 * r >= div THEN q + 1 ELSE q
         IN  IF dec.coef < 0 THEN 0 - rnd ELSE rnd

\* int(text): an optional sign and at least one digit, else ValueError;
\* None raises TypeError.
PyInt(raw) ==
    IF IsNone(raw) THEN [ok |-> FALSE, val |-> 0]
    ELSE LET s      == Get(raw)
             signed == Len(s) > 0 /\ s[1] \in {"+", "-"}
             body   == IF signed THEN Tail(s) ELSE s
         IN  IF Len(body) >= 1 /\ AllDigits(body)
             THEN [ok |-> TRUE,
                   val |-> IF signed /\ s[1] = "-" THEN 0 - ToNat(body)
                           ELSE ToNat(body)]
             ELSE [ok |-> FALSE, val |-> 0]

\* ------------------------------------------------------------- dates
IsLeap(y) == (y % 4 = 0 /\ y % 100 # 0) \/ y % 400 = 0

DaysInMonth(y, m) ==
    IF m = 2 THEN (IF IsLeap(y) THEN 29 ELSE 28)
    ELSE IF m \in {4, 6, 9, 11} THEN 30 ELSE 31

DateKey(d) == d[1] * 10000 + d[2] * 100 + d[3]

PrevDay(d) ==
    IF d[3] > 1 THEN <<d[1], d[2], d[3] - 1>>
    ELSE IF d[2] > 1 THEN <<d[1], d[2] - 1, DaysInMonth(d[1], d[2] - 1)>>
    ELSE <<d[1] - 1, 12, 31>>

RECURSIVE MinusDays(_, _)
\* date - timedelta(days=n)
MinusDays(d, n) == IF n = 0 THEN d ELSE MinusDays(PrevDay(d), n - 1)

\* Positions of "-" in a text
Dashes(s) == {i \in 1..Len(s) : s[i] = "-"}

\* datetime.strptime(text, "%Y-%m-%d"): four digits, one or two digits,
\* one or two digits, separated by "-", naming a date that exists; else
\* ValueError.
strptime(s) ==
    LET ds == Dashes(s)
        d1 == CHOOSE i \in ds : \A j \in ds : i <= j
        d2 == CHOOSE i \in ds : \A j \in ds : i >= j
        ys == SubSeq(s, 1, d1 - 1)
        ms == SubSeq(s, d1 + 1, d2 - 1)
        dd == SubSeq(s, d2 + 1, Len(s))
        y  == ToNat(ys)
        m  == ToNat(ms)
        d  == ToNat(dd)
    IN  IF /\ Cardinality(ds) = 2
           /\ Len(ys) = 4 /\ Len(ms) \in {1, 2} /\ Len(dd) \in {1, 2}
           /\ AllDigits(ys) /\ AllDigits(ms) /\ AllDigits(dd)
           /\ y >= 1 /\ m \in 1..12 /\ d >= 1 /\ d <= DaysInMonth(y, m)
        THEN [ok |-> TRUE, date |-> <<y, m, d>>]
        ELSE [ok |-> FALSE, date |-> <<1, 1, 1>>]

\* Leading and trailing spaces removed (str.strip on the model's alphabet)
RECURSIVE LStrip(_)
LStrip(s) == IF s # <<>> /\ Head(s) = " " THEN LStrip(Tail(s)) ELSE s

RECURSIVE RStrip(_)
RStrip(s) ==
    IF s # <<>> /\ s[Len(s)] = " " THEN RStrip(SubSeq(s, 1, Len(s) - 1)) ELSE s

Strip(s) == LStrip(RStrip(s))

\* str.lower on the letters the inputs use
Lower(s) ==
    [i \in 1..Len(s) |-> CASE s[i] = "A" -> "a" [] s[i] = "B" -> "b" [] OTHER -> s[i]]

\* ------------------------------------------------------------- state
VARIABLES
    users,          \* relation users: sequence, id = position
    categories,     \* relation categories: sequence, id = position
    transactions,   \* relation transactions: function id -> row
    next_tx_id,     \* the serial behind Transaction.id
    inflight,       \* setup_balance requests between their check and commit
    last,           \* the latest request and the response it got
    today           \* the server's current date (local = UTC)

vars == <<users, categories, transactions, next_tx_id, inflight, last, today>>

UserIds == 1..Len(users)
TxIds == DOMAIN transactions

\* create_default_categories
DefaultCategories ==
    << <<"Eda", "expense">>, <<"Transport", "expense">>,
       <<"Razvlecheniya", "expense">>, <<"Arenda", "expense">>,
       <<"Podpiski", "expense">>, <<"Drugoe", "expense">>,
       <<"Zarplata", "income">>, <<"Frilans", "income">>,
       <<"Podarki", "income">> >>

create_default_categories(uid) ==
    [i \in 1..Len(DefaultCategories) |->
        [name |-> DefaultCategories[i][1],
         type |-> DefaultCategories[i][2],
         user_id |-> uid]]

\* generate_password_hash / check_password_hash
generate_password_hash(password) == [hash_of |-> password]

\* ---------------------------------------------------------- responses
NoTx == 0
Anonymous == 0

Redirect(h, u, id, target, flash) ==
    [handler |-> h, user |-> u, tx_id |-> id, status |-> "redirect",
     target |-> target, flash |-> flash, view |-> None, form |-> None]

Render(h, u, id, template, view) ==
    [handler |-> h, user |-> u, tx_id |-> id, status |-> "render",
     target |-> template, flash |-> "", view |-> view, form |-> None]

\* first_or_404
NotFound(h, u, id) ==
    [handler |-> h, user |-> u, tx_id |-> id, status |-> "not_found",
     target |-> "", flash |-> "", view |-> None, form |-> None]

\* a setup_balance POST that passed its check and has not committed yet
Pending(h, u) ==
    [handler |-> h, user |-> u, tx_id |-> NoTx, status |-> "pending",
     target |-> "", flash |-> "", view |-> None, form |-> None]

\* the response to a POST, with the form that was posted
Posted(response, form) == [response EXCEPT !.form = Some(form)]

\* before any request
NoRequest ==
    [handler |-> "none", user |-> Anonymous, tx_id |-> NoTx,
     status |-> "none", target |-> "", flash |-> "", view |-> None, form |-> None]

\* the date the server runs on
Today == <<2024, 3, 5>>

\* db.create_all(): three empty relations
Init ==
    /\ users = <<>>
    /\ categories = <<>>
    /\ transactions = <<>>
    /\ next_tx_id = 1
    /\ inflight = {}
    /\ last = NoRequest
    /\ today = Today

\* ------------------------------------------------------------ register
EmailTaken(email) == \E i \in UserIds : users[i].email = email

Register(method, form) ==
    LET name  == Strip(form.name)
        email == Lower(Strip(form.email))
        password == form.password
        confirm  == form.confirm
        uid   == Len(users) + 1
    IN  /\ UNCHANGED <<transactions, next_tx_id, inflight, today>>
        /\ IF method = "GET"
           THEN /\ last' = Render("register", Anonymous, NoTx, "register.html", None)
                /\ UNCHANGED <<users, categories>>
           ELSE IF name = <<>> \/ email = <<>> \/ password = <<>>
           THEN /\ last' = Redirect("register", Anonymous, NoTx, "register", "fill all fields")
                /\ UNCHANGED <<users, categories>>
           ELSE IF password # confirm
           THEN /\ last' = Redirect("register", Anonymous, NoTx, "register", "passwords differ")
                /\ UNCHANGED <<users, categories>>
           ELSE IF EmailTaken(email)
           THEN /\ last' = Redirect("register", Anonymous, NoTx, "register", "email exists")
                /\ UNCHANGED <<users, categories>>
           ELSE /\ Len(users) < MaxUsers
                /\ users' = Append(users,
                       [name |-> name, email |-> email,
                        password_hash |-> generate_password_hash(password),
                        initial_balance |-> None])
                /\ categories' = categories \o create_default_categories(uid)
                /\ last' = Redirect("register", uid, NoTx, "dashboard", "account created")

\* ------------------------------------------------------- setup_balance
\* "if current_user.initial_balance is not None"
BalanceIsSet(u) == ~IsNone(users[u].initial_balance)

\* current_user.initial_balance = amount; db.session.commit()
WriteBalance(u, amount) ==
    users' = [users EXCEPT ![u].initial_balance = Some(ToNumeric(amount))]

\* The handler run without any other request in between.
SetupBalance(u, method, raw) ==
    LET amount == parse_decimal(raw)
    IN  /\ u \in UserIds
        /\ UNCHANGED <<categories, transactions, next_tx_id, inflight, today>>
        /\ IF BalanceIsSet(u)
           THEN /\ last' = Redirect("setup_balance", u, NoTx, "dashboard", "")
                /\ UNCHANGED users
           ELSE IF method = "POST" /\ ~amount.ok
           THEN /\ last' = Redirect("setup_balance", u, NoTx, "setup_balance", "bad balance")
                /\ UNCHANGED users
           ELSE IF method = "POST"
           THEN /\ WriteBalance(u, amount)
                /\ last' = Redirect("setup_balance", u, NoTx, "dashboard", "balance saved")
           ELSE /\ last' = Render("setup_balance", u, NoTx, "setup_balance.html", None)
                /\ UNCHANGED users

\* The same handler as two steps, for requests served concurrently: the
\* request loads current_user and checks it (lines 249-259) ...
SetupBalanceCheck(u, method, raw) ==
    LET amount == parse_decimal(raw)
    IN  /\ u \in UserIds
        /\ UNCHANGED <<users, categories, transactions, next_tx_id, today>>
        /\ IF BalanceIsSet(u)
           THEN /\ last' = Redirect("setup_balance", u, NoTx, "dashboard", "")
                /\ UNCHANGED inflight
           ELSE IF method = "POST" /\ ~amount.ok
           THEN /\ last' = Redirect("setup_balance", u, NoTx, "setup_balance", "bad balance")
                /\ UNCHANGED inflight
           ELSE IF method = "POST"
           THEN /\ Cardinality(inflight) < MaxInflight
                /\ inflight' = inflight \cup {[user |-> u, amount |-> amount]}
                /\ last' = Pending("setup_balance", u)
           ELSE /\ last' = Render("setup_balance", u, NoTx, "setup_balance.html", None)
                /\ UNCHANGED inflight

\* ... and later writes and commits (lines 261-264).
SetupBalanceCommit(r) ==
    /\ r \in inflight
    /\ WriteBalance(r.user, r.amount)
    /\ inflight' = inflight \ {r}
    /\ last' = Redirect("setup_balance", r.user, NoTx, "dashboard", "balance saved")
    /\ UNCHANGED <<categories, transactions, next_tx_id, today>>

\* ----------------------------------------------------------- dashboard
\* the gate testing for a zero balance instead of a missing one
BalanceMissing_zero(u) == users[u].initial_balance = Some(0)

\* "if current_user.initial_balance is None"
BalanceMissing(u) == IsNone(users[u].initial_balance)

\* start_date for a period selector
PeriodStart(period, day) ==
    IF period = "week" THEN MinusDays(day, 7)
    ELSE IF period = "month" THEN <<day[1], day[2], 1>>
    ELSE IF period = "year" THEN <<day[1], 1, 1>>
    ELSE IF period = "all" THEN <<1970, 1, 1>>
    ELSE <<day[1], day[2], 1>>

\* Transaction.created_at >= start_dt
InWindow(created_at, start) == DateKey(created_at) >= DateKey(start)

\* base_query: the user's transactions of the window
BaseQuery(uid, start) ==
    {id \in TxIds : /\ transactions[id].user_id = uid
                    /\ InWindow(transactions[id].created_at, start)}

\* the totals taken strictly after the start
TotalRows_strict(uid, type, start) ==
    {id \in TxIds : /\ transactions[id].user_id = uid
                    /\ transactions[id].type = type
                    /\ DateKey(transactions[id].created_at) > DateKey(start)}

\* the filter of the two total queries
TotalRows(uid, type, start) ==
    {id \in TxIds : /\ transactions[id].user_id = uid
                    /\ transactions[id].type = type
                    /\ InWindow(transactions[id].created_at, start)}

RECURSIVE SumAmount(_)
SumAmount(S) ==
    IF S = {} THEN 0
    ELSE LET id == CHOOSE x \in S : TRUE
         IN  transactions[id].amount + SumAmount(S \ {id})

\* func.sum: NULL over no rows
SqlSum(S) == IF S = {} THEN None ELSE Some(SumAmount(S))

\* func.coalesce(x, 0)
Coalesce(o, d) == IF IsNone(o) THEN d ELSE Get(o)

\* "current_user.initial_balance or Decimal('0')"
OrZero(o) == IF IsNone(o) \/ Get(o) = 0 THEN 0 ELSE Get(o)

\* balance = initial + (total_income or 0) - (total_expense or 0)
Balance(initial, total_income, total_expense) ==
    initial + total_income - total_expense

\* The order in which the store hands out rows that a query does not order:
\* ascending or descending id.
ScanOrders == {"asc", "desc"}

RECURSIVE Ascending(_)
Ascending(S) ==
    IF S = {} THEN <<>>
    ELSE LET m == CHOOSE x \in S : \A y \in S : x <= y
         IN  <<m>> \o Ascending(S \ {m})

Reverse(q) == [i \in 1..Len(q) |-> q[Len(q) + 1 - i]]

Scan(S, scan) == IF scan = "asc" THEN Ascending(S) ELSE Reverse(Ascending(S))

\* x placed behind every row whose key is at least its own
InsertDesc(sorted, x, key) ==
    LET pos == Cardinality({i \in 1..Len(sorted) : key[sorted[i]] >= key[x]})
    IN  SubSeq(sorted, 1, pos) \o <<x>> \o SubSeq(sorted, pos + 1, Len(sorted))

RECURSIVE OrderByDesc(_, _)
\* order_by(key.desc()): rows of equal key stay in scan order
OrderByDesc(q, key) ==
    IF q = <<>> THEN <<>>
    ELSE InsertDesc(OrderByDesc(SubSeq(q, 1, Len(q) - 1), key), q[Len(q)], key)

\* a limit that lets one row too many through
Limit_offByOne(q, n) == SubSeq(q, 1, IF Len(q) < n + 1 THEN Len(q) ELSE n + 1)

\* limit(n)
Limit(q, n) == SubSeq(q, 1, IF Len(q) < n THEN Len(q) ELSE n)

TopLimit == 5
RecentLimit == 50

AmountKey == [id \in TxIds |-> transactions[id].amount]
CreatedKey == [id \in TxIds |-> DateKey(transactions[id].created_at)]

\* base_query.filter(type == "expense").order_by(amount.desc()).limit(5)
TopExpenses(uid, start, scan) ==
    Limit(OrderByDesc(Scan({id \in BaseQuery(uid, start) :
                                transactions[id].type = "expense"}, scan),
                      AmountKey),
          TopLimit)

\* base_query.order_by(created_at.desc()).limit(50)
RecentTransactions(uid, start, scan) ==
    Limit(OrderByDesc(Scan(BaseQuery(uid, start), scan), CreatedKey), RecentLimit)

\* expenses of the window joined with their category, summed by name
ExpenseRows(uid, start) ==
    LET rows == TotalRows(uid, "expense", start)
        name(id) == categories[transactions[id].category_id].name
    IN  {<<n, SumAmount({id \in rows : name(id) = n})>> : n \in {name(id) : id \in rows}}

\* Category.query.filter_by(user_id=, type=).all()
CategoriesOf(uid, type) ==
    {c \in 1..Len(categories) :
        categories[c].user_id = uid /\ categories[c].type = type}

Dashboard(u, period_raw, scan) ==
    LET period        == IF IsNone(period_raw) THEN "month" ELSE Get(period_raw)
        start         == PeriodStart(period, today)
        total_income  == Coalesce(SqlSum(TotalRows(u, "income", start)), 0)
        total_expense == Coalesce(SqlSum(TotalRows(u, "expense", start)), 0)
        initial       == OrZero(users[u].initial_balance)
    IN  /\ u \in UserIds
        /\ scan \in ScanOrders
        /\ UNCHANGED <<users, categories, transactions, next_tx_id, inflight, today>>
        /\ IF BalanceMissing(u)
           THEN last' = Redirect("dashboard", u, NoTx, "setup_balance", "")
           ELSE last' = Render("dashboard", u, NoTx, "dashboard.html",
                    Some([period |-> period,
                          start |-> start,
                          balance |-> Balance(initial, total_income, total_expense),
                          total_income |-> total_income,
                          total_expense |-> total_expense,
                          transactions |-> RecentTransactions(u, start, scan),
                          top_expenses |-> TopExpenses(u, start, scan),
                          expense_rows |-> ExpenseRows(u, start),
                          expense_categories |-> CategoriesOf(u, "expense"),
                          income_categories |-> CategoriesOf(u, "income")]))

\* -------------------------------------------------------- transactions
\* the amount check with < in place of <=
AmountRejected_strict(amount) == ~amount.ok \/ amount.coef < 0

\* parse_decimal failed, or "if amount <= 0"
AmountRejected(amount) == ~amount.ok \/ NonPositive(amount)

\* "if date_str:" then strptime, else (or on ValueError) the fallback
ParseDate(date_raw, fallback) ==
    IF IsNone(date_raw) \/ Get(date_raw) = <<>> THEN fallback
    ELSE IF strptime(Get(date_raw)).ok THEN strptime(Get(date_raw)).date
    ELSE fallback

\* the category lookup without its type filter, and without its owner filter
CategoryMatches_noType(c, cid, uid, type) == c = cid /\ categories[c].user_id = uid

CategoryMatches_noUser(c, cid, uid, type) == c = cid /\ categories[c].type = type

\* filter_by(id=category_id_int, user_id=current_user.id, type=type_)
CategoryMatches(c, cid, uid, type) ==
    /\ c = cid
    /\ categories[c].user_id = uid
    /\ categories[c].type = type

FindCategory(cid, uid, type) ==
    {c \in 1..Len(categories) : CategoryMatches(c, cid, uid, type)}

\* "description or None"
OrNone(text) == IF text = <<>> THEN None ELSE Some(text)

\* the transaction lookup by id alone
TxMatches_anyUser(id, tx_id, uid) == id = tx_id

\* filter_by(id=tx_id, user_id=current_user.id)
TxMatches(id, tx_id, uid) == id = tx_id /\ transactions[id].user_id = uid

FindTx(tx_id, uid) == {id \in TxIds : TxMatches(id, tx_id, uid)}

AddTransaction(cap, u, form) ==
    LET type_    == IF IsNone(form.type) THEN "expense" ELSE Get(form.type)
        amount   == parse_decimal(form.amount)
        date_obj == ParseDate(form.date, today)
        cat_int  == PyInt(form.category_id)
        found    == FindCategory(cat_int.val, u, type_)
        category == CHOOSE c \in found : TRUE
        tx       == [user_id |-> u, category_id |-> category,
                     amount |-> ToNumeric(amount), type |-> type_,
                     description |-> OrNone(Strip(form.description)),
                     created_at |-> date_obj]
    IN  /\ u \in UserIds
        /\ UNCHANGED <<users, categories, inflight, today>>
        /\ IF AmountRejected(amount)
           THEN /\ last' = Posted(Redirect("add_transaction", u, NoTx, "dashboard", "bad amount"), form)
                /\ UNCHANGED <<transactions, next_tx_id>>
           ELSE IF ~cat_int.ok
           THEN /\ last' = Posted(Redirect("add_transaction", u, NoTx, "dashboard", "no category"), form)
                /\ UNCHANGED <<transactions, next_tx_id>>
           ELSE IF found = {}
           THEN /\ last' = Posted(Redirect("add_transaction", u, NoTx, "dashboard", "category not found"), form)
                /\ UNCHANGED <<transactions, next_tx_id>>
           ELSE /\ next_tx_id <= cap
                /\ transactions' = [id \in TxIds \cup {next_tx_id} |->
                        IF id = next_tx_id THEN tx ELSE transactions[id]]
                /\ next_tx_id' = next_tx_id + 1
                /\ last' = Posted(Redirect("add_transaction", u, next_tx_id, "dashboard", "added"), form)

EditTransaction(u, tx_id, method, form) ==
    LET hit      == FindTx(tx_id, u)
        id       == CHOOSE x \in hit : TRUE
        tx       == transactions[id]
        type_    == IF IsNone(form.type) THEN tx.type ELSE Get(form.type)
        amount   == parse_decimal(form.amount)
        date_obj == ParseDate(form.date, tx.created_at)
        cat_int  == PyInt(form.category_id)
        found    == FindCategory(cat_int.val, u, type_)
        category == CHOOSE c \in found : TRUE
    IN  /\ u \in UserIds
        /\ UNCHANGED <<users, categories, next_tx_id, inflight, today>>
        /\ IF hit = {}
           THEN /\ last' = NotFound("edit_transaction", u, tx_id)
                /\ UNCHANGED transactions
           ELSE IF method = "GET"
           THEN /\ last' = Render("edit_transaction", u, tx_id, "edit_transaction.html",
                        Some([tx |-> id,
                              categories |-> CategoriesOf(u,
                                  IF categories[tx.category_id].type = "expense"
                                  THEN "expense" ELSE "income"),
                              tx_date |-> tx.created_at]))
                /\ UNCHANGED transactions
           ELSE IF AmountRejected(amount)
           THEN /\ last' = Posted(Redirect("edit_transaction", u, tx_id, "edit_transaction", "bad amount"), form)
                /\ UNCHANGED transactions
           ELSE IF ~cat_int.ok
           THEN /\ last' = Posted(Redirect("edit_transaction", u, tx_id, "edit_transaction", "no category"), form)
                /\ UNCHANGED transactions
           ELSE IF found = {}
           THEN /\ last' = Posted(Redirect("edit_transaction", u, tx_id, "edit_transaction", "category not found"), form)
                /\ UNCHANGED transactions
           ELSE /\ transactions' = [transactions EXCEPT ![id] =
                        [user_id |-> tx.user_id, category_id |-> category,
                         amount |-> ToNumeric(amount), type |-> type_,
                         description |-> OrNone(Strip(form.description)),
                         created_at |-> date_obj]]
                /\ last' = Posted(Redirect("edit_transaction", u, tx_id, "dashboard", "updated"), form)

DeleteTransaction(u, tx_id) ==
    LET hit == FindTx(tx_id, u)
        id  == CHOOSE x \in hit : TRUE
    IN  /\ u \in UserIds
        /\ UNCHANGED <<users, categories, next_tx_id, inflight, today>>
        /\ IF hit = {}
           THEN /\ last' = NotFound("delete_transaction", u, tx_id)
                /\ UNCHANGED transactions
           ELSE /\ transactions' = [x \in TxIds \ {id} |-> transactions[x]]
                /\ last' = Redirect("delete_transaction", u, tx_id, "dashboard", "deleted")

\* -------------------------------------------------------------- inputs
Methods == {"GET", "POST"}

RegForm(name, email, password, confirm) ==
    [name |-> name, email |-> email, password |-> password, confirm |-> confirm]

TxForm(type, amount, category_id, date) ==
    [type |-> type, amount |-> amount, category_id |-> category_id,
     description |-> <<>>, date |-> date]

\* "a", " A" (the same address once stripped and lowered), "b"; a missing
\* name; a confirmation that differs
RegForms ==
    { RegForm(<<"n">>, <<"a">>, <<"p">>, <<"p">>),
      RegForm(<<"n">>, <<" ", "A">>, <<"p">>, <<"p">>),
      RegForm(<<"n">>, <<"b">>, <<"p">>, <<"p">>),
      RegForm(<<" ">>, <<"b">>, <<"p">>, <<"p">>),
      RegForm(<<"n">>, <<"b">>, <<"p">>, <<"q">>) }

Date1969 == <<"1", "9", "6", "9", "-", "1", "2", "-", "3", "1">>
DateToday == <<"2", "0", "2", "4", "-", "0", "3", "-", "0", "5">>
DateFeb27 == <<"2", "0", "2", "4", "-", "0", "2", "-", "2", "7">>
DateDec31 == <<"2", "0", "2", "3", "-", "1", "2", "-", "3", "1">>
DateFeb30 == <<"2", "0", "2", "4", "-", "0", "2", "-", "3", "0">>

\* The first user registered owns categories 1..9 (1..6 expense, 7..9
\* income), the second 10..18 (10..15 expense, 16..18 income).
TxForms ==
    { \* accepted for the first user
      TxForm(None, Some(<<"1">>), Some(<<"1">>), None),
      TxForm(Some("income"), Some(<<"0", ".", "0", "0", "5">>), Some(<<"7">>), Some(DateToday)),
      TxForm(Some("expense"), Some(<<"0", ",", "0", "0", "4">>), Some(<<"1">>), Some(DateFeb30)),
      \* accepted for the second user
      TxForm(Some("expense"), Some(<<"1">>), Some(<<"1", "0">>), Some(<<>>)),
      \* amounts that are refused, every other field acceptable
      TxForm(Some("expense"), Some(<<"0">>), Some(<<"1">>), None),
      TxForm(Some("expense"), Some(<<"-", "1">>), Some(<<"1", "0">>), Some(Date1969)),
      TxForm(Some("other"), Some(<<"0", ".", "0", "0">>), Some(<<"1">>), None),
      TxForm(Some("expense"), Some(<<"x">>), Some(<<"1">>), None),
      \* categories that are refused
      TxForm(Some("expense"), Some(<<"1">>), None, None),
      TxForm(Some("expense"), Some(<<"1">>), Some(<<"9", "9">>), None),
      TxForm(Some("income"), Some(<<"1">>), Some(<<"1">>), None),
      TxForm(Some("other"), Some(<<"1">>), Some(<<"1">>), None) }

\* the forms posted to edit_transaction: the accepted ones, and one refusal
\* of each kind
EditTxForms ==
    {f \in TxForms :
        \/ /\ parse_decimal(f.amount).ok /\ parse_decimal(f.amount).coef > 0
           /\ f.category_id # Some(<<"9", "9">>)
        \/ f.amount = Some(<<"0">>)}

\* what a GET carries
NoForm == TxForm(None, None, None, None)
NoRegForm == RegForm(<<>>, <<>>, <<>>, <<>>)

BalanceInputs == {None, Some(<<"x">>), Some(<<"1", "0">>)}

PeriodInputs == {None, Some("week"), Some("month"), Some("year"), Some("all"), Some("decade")}

\* ------------------------------------------------- the application
DoRegister ==
    \/ Register("GET", NoRegForm)
    \/ \E f \in RegForms : Register("POST", f)

DoSetupBalance ==
    \E u \in UserIds :
        \/ SetupBalance(u, "GET", None)
        \/ \E raw \in BalanceInputs : SetupBalance(u, "POST", raw)

DoDashboard ==
    \E u \in UserIds : Dashboard(u, None, "asc")

DoAddTransaction == \E u \in UserIds, f \in TxForms : AddTransaction(MaxTx, u, f)

DoEditTransaction ==
    \E u \in UserIds, id \in 1..MaxTx :
        \/ EditTransaction(u, id, "GET", NoForm)
        \/ \E f \in EditTxForms : EditTransaction(u, id, "POST", f)

DoDeleteTransaction == \E u \in UserIds, id \in 1..MaxTx : DeleteTransaction(u, id)

Next ==
    \/ DoRegister
    \/ DoSetupBalance
    \/ DoDashboard
    \/ DoAddTransaction
    \/ DoEditTransaction
    \/ DoDeleteTransaction

Spec == Init /\ [][Next]_vars

\* ------------------------------- the application, requests interleaved
\* setup_balance as its two steps; everything else as above
RaceBalanceInputs == {Some(<<"x">>), Some(<<"1", "0">>), Some(<<"2", "0">>)}

RaceTxForms ==
    { TxForm(None, Some(<<"1">>), Some(<<"1">>), None),
      TxForm(Some("expense"), Some(<<"0">>), Some(<<"1">>), None) }

DoSetupBalanceCheck ==
    \E u \in UserIds :
        \/ SetupBalanceCheck(u, "GET", None)
        \/ \E raw \in RaceBalanceInputs : SetupBalanceCheck(u, "POST", raw)

DoSetupBalanceCommit == \E r \in inflight : SetupBalanceCommit(r)

DoAddTransactionRace == \E u \in UserIds, f \in RaceTxForms : AddTransaction(MaxTx, u, f)

DoEditTransactionRace ==
    \E u \in UserIds, id \in 1..MaxTx :
        \/ EditTransaction(u, id, "GET", NoForm)
        \/ \E f \in RaceTxForms : EditTransaction(u, id, "POST", f)

NextRace ==
    \/ DoRegister
    \/ DoSetupBalanceCheck
    \/ DoSetupBalanceCommit
    \/ DoDashboard
    \/ DoAddTransactionRace
    \/ DoEditTransactionRace
    \/ DoDeleteTransaction

SpecRace == Init /\ [][NextRace]_vars

\* --------------------------------- the application, dated transactions
\* With today = 2024-03-05: the week starts 2024-02-27, the month
\* 2024-03-01, the year 2024-01-01.
AggTxForms ==
    { TxForm(None, Some(<<"2", ",", "5">>), Some(<<"1">>), Some(DateToday)),
      TxForm(Some("income"), Some(<<"1", "0">>), Some(<<"7">>), Some(DateFeb27)),
      TxForm(Some("income"), Some(<<"0", ".", "0", "0", "5">>), Some(<<"8">>), Some(Date1969)),
      TxForm(Some("expense"), Some(<<"1">>), Some(<<"2">>), Some(DateDec31)),
      TxForm(Some("expense"), Some(<<"1">>), Some(<<"1", "0">>), Some(<<>>)),
      TxForm(Some("expense"), Some(<<"0">>), Some(<<"1">>), None),
      TxForm(Some("income"), Some(<<"1">>), Some(<<"1">>), Some(DateFeb30)) }

DoSetupBalanceAgg ==
    \E u \in UserIds :
        \/ SetupBalance(u, "GET", None)
        \/ \E raw \in {Some(<<"1", "0">>)} : SetupBalance(u, "POST", raw)

DoDashboardAgg == \E u \in UserIds, p \in PeriodInputs : Dashboard(u, p, "asc")

DoAddTransactionAgg == \E u \in UserIds, f \in AggTxForms : AddTransaction(MaxTx, u, f)

DoEditTransactionAgg ==
    \E u \in UserIds, id \in 1..MaxTx :
        \/ EditTransaction(u, id, "GET", NoForm)
        \/ \E f \in AggTxForms : EditTransaction(u, id, "POST", f)

NextAgg ==
    \/ DoRegister
    \/ DoSetupBalanceAgg
    \/ DoDashboardAgg
    \/ DoAddTransactionAgg
    \/ DoEditTransactionAgg
    \/ DoDeleteTransaction

SpecAgg == Init /\ [][NextAgg]_vars

\* ------------------------------------- the dashboard over larger stores
\* Two users with their balance set, and up to MaxTxTop transactions, each
\* one that add_transaction stores for one of these forms:
\*   user 1, expense, 1.00 and 2.00, today;  user 1, expense, 3.00, 2023-12-31;
\*   user 1, income, 3.00, today;            user 2, expense, 3.00, today.
TopUsers ==
    [i \in 1..2 |->
        [name |-> <<"n">>, email |-> IF i = 1 THEN <<"a">> ELSE <<"b">>,
         password_hash |-> generate_password_hash(<<"p">>),
         initial_balance |-> Some(1000)]]

TopRow(u, c, t, amount, date) ==
    [user_id |-> u, category_id |-> c, amount |-> amount, type |-> t,
     description |-> None, created_at |-> date]

TopRows ==
    { TopRow(1, 1, "expense", 100, <<2024, 3, 5>>),
      TopRow(1, 2, "expense", 200, <<2024, 3, 5>>),
      TopRow(1, 1, "expense", 300, <<2023, 12, 31>>),
      TopRow(1, 7, "income", 300, <<2024, 3, 5>>),
      TopRow(2, 10, "expense", 300, <<2024, 3, 5>>) }

InitTop ==
    /\ users = TopUsers
    /\ categories = create_default_categories(1) \o create_default_categories(2)
    /\ \E n \in 0..MaxTxTop :
          /\ next_tx_id = n + 1
          /\ transactions \in [1..n -> TopRows]
    /\ inflight = {}
    /\ last = NoRequest
    /\ today = Today

DoDashboardTop ==
    \E u \in UserIds, scan \in ScanOrders : Dashboard(u, Some("month"), scan)

NextTop == DoDashboardTop

SpecTop == InitTop /\ [][NextTop]_vars

\* ---------------------------------------------------------- properties
\* The step is a request of handler h; a POST that got as far as reading
\* its form carries it in last'.form.
By(h) == last'.handler = h

HasForm == ~IsNone(last'.form)

Rejections == {"bad amount", "no category", "category not found"}

StoreUnchanged == UNCHANGED <<users, categories, transactions>>

ValidAmount(f) == parse_decimal(f.amount).ok /\ parse_decimal(f.amount).coef > 0

Owns(u, id) == id \in TxIds /\ transactions[id].user_id = u

\* C2: an add_transaction whose amount parses to a value <= 0 is refused,
\* and users, categories and transactions stay exactly as they were,
\* whatever the other fields of the form hold.
C2_NonPositiveAmountRejected ==
    [][( /\ By("add_transaction")
         /\ parse_decimal(Get(last'.form).amount).ok
         /\ parse_decimal(Get(last'.form).amount).coef <= 0 )
       => /\ StoreUnchanged
          /\ next_tx_id' = next_tx_id
          /\ last'.status = "redirect"
          /\ last'.flash = "bad amount"]_vars

\* an add with amount "0.00" and a type that is neither income nor expense
\* was refused for its amount, the store holding a transaction of the user
C2_Witness ==
    /\ last.handler = "add_transaction"
    /\ last.flash = "bad amount"
    /\ parse_decimal(Get(last.form).amount).ok
    /\ Get(last.form).type = Some("other")
    /\ \E id \in TxIds : transactions[id].user_id = last.user

\* C3: an edit or a delete by a user of an id that is not a transaction of
\* that user ends not-found and leaves every transaction as it was; and a
\* step that changes or removes a transaction is a request of its owner.
C3_OnlyOwnerMutates ==
    [][/\ ( /\ By("delete_transaction") \/ By("edit_transaction")
            /\ ~Owns(last'.user, last'.tx_id) )
          => (last'.status = "not_found" /\ transactions' = transactions)
       /\ \A id \in TxIds :
             (id \notin DOMAIN transactions' \/ transactions'[id] # transactions[id])
                 => last'.user = transactions[id].user_id]_vars

\* a user asked to edit or delete an existing transaction of another user
C3_Witness ==
    /\ last.status = "not_found"
    /\ last.tx_id \in TxIds
    /\ transactions[last.tx_id].user_id # last.user

\* C4: every stored amount is above zero, the stored amount being what the
\* Numeric(14, 2) column holds.
C4_StoredAmountPositive == \A id \in TxIds : transactions[id].amount > 0

\* C5 as stated: stored type = type of the referenced category; and an add
\* or edit whose type is not the referenced category's type (or is neither
\* income nor expense) is refused as "category not found" and changes no
\* transaction.
TypeOfForm(f, default) == IF IsNone(f.type) THEN default ELSE Get(f.type)

TypeMismatch(type, f) ==
    \/ type \notin {"income", "expense"}
    \/ /\ PyInt(f.category_id).ok
       /\ PyInt(f.category_id).val \in 1..Len(categories)
       /\ categories[PyInt(f.category_id).val].type # type

TypesAgree ==
    \A id \in TxIds :
        transactions[id].type = categories[transactions[id].category_id].type

\* the type an add, or an edit of the caller's transaction last'.tx_id, works with
TypeOfRequest ==
    TypeOfForm(Get(last'.form),
               IF By("add_transaction") THEN "expense" ELSE transactions[last'.tx_id].type)

C5_AsStated ==
    /\ []TypesAgree
    /\ [][( /\ By("add_transaction") \/ By("edit_transaction")
            /\ HasForm
            /\ TypeMismatch(TypeOfRequest, Get(last'.form)) )
          => (last'.flash = "category not found" /\ transactions' = transactions)]_vars

\* C5 amended: the refusal is "category not found" when the request gets as
\* far as the category lookup, that is, when the amount is valid and
\* category_id is an integer (and, for an edit, the transaction is the
\* caller's: only then is the form read).  Whatever the other fields, a
\* request with such a type changes no transaction.
C5_TypeMatchesCategory ==
    /\ []TypesAgree
    /\ [][( /\ By("add_transaction") \/ By("edit_transaction")
            /\ HasForm
            /\ TypeMismatch(TypeOfRequest, Get(last'.form)) )
          => /\ transactions' = transactions
             /\ (ValidAmount(Get(last'.form)) /\ PyInt(Get(last'.form).category_id).ok)
                    => last'.flash = "category not found"]_vars

\* an edit of the caller's expense that posted type income with an expense
\* category and a valid amount was refused as "category not found"
C5_Witness ==
    /\ last.handler = "edit_transaction"
    /\ last.flash = "category not found"
    /\ Owns(last.user, last.tx_id)
    /\ ValidAmount(Get(last.form))
    /\ Get(last.form).type = Some("income")
    /\ PyInt(Get(last.form).category_id).val \in 1..Len(categories)
    /\ categories[PyInt(Get(last.form).category_id).val].type = "expense"
    /\ categories[PyInt(Get(last.form).category_id).val].user_id = last.user

\* C9: a dashboard request of a user without initial_balance is redirected
\* to setup_balance and carries no aggregation; a dashboard that carries
\* one belongs to a user whose initial_balance is set.
C9_DashboardGated ==
    last.handler = "dashboard" =>
        IF IsNone(users[last.user].initial_balance)
        THEN last.status = "redirect" /\ last.target = "setup_balance" /\ IsNone(last.view)
        ELSE last.status = "render" /\ ~IsNone(last.view)

\* a user who has transactions but no initial balance asked for the dashboard
C9_Witness ==
    /\ last.handler = "dashboard"
    /\ last.status = "redirect"
    /\ \E id \in TxIds : transactions[id].user_id = last.user

\* C10: a stored transaction references a category of its own user; an add
\* or edit that names another user's category is refused and changes no
\* transaction.
OtherUsersCategory(u, f) ==
    /\ PyInt(f.category_id).ok
    /\ PyInt(f.category_id).val \in 1..Len(categories)
    /\ categories[PyInt(f.category_id).val].user_id # u

C10_CategoryOfOwner ==
    /\ [](\A id \in TxIds :
            categories[transactions[id].category_id].user_id = transactions[id].user_id)
    /\ [][( /\ By("add_transaction") \/ By("edit_transaction")
            /\ HasForm
            /\ OtherUsersCategory(last'.user, Get(last'.form)) )
          => /\ transactions' = transactions
             /\ last'.flash \in Rejections]_vars

\* an add and an edit each named a category of the other user, with a valid
\* amount and that category's type, and were refused
C10_WitnessFor(h) ==
    /\ last.handler = h
    /\ last.flash = "category not found"
    /\ ValidAmount(Get(last.form))
    /\ OtherUsersCategory(last.user, Get(last.form))
    /\ categories[PyInt(Get(last.form).category_id).val].type
           = TypeOfForm(Get(last.form), "expense")

C10_Witness == C10_WitnessFor("edit_transaction") /\ Owns(last.user, last.tx_id)

\* C1: the balance a dashboard shows is initial_balance + total_income -
\* total_expense, the totals being the sums of the amounts of the user's
\* income and expense transactions dated at or after the period's start
\* (zero when there is none), for every period selector.
RECURSIVE SumUpTo(_, _, _, _)
SumUpTo(n, u, type, start) ==
    IF n = 0 THEN 0
    ELSE SumUpTo(n - 1, u, type, start)
         + (IF /\ n \in TxIds
               /\ transactions[n].user_id = u
               /\ transactions[n].type = type
               /\ DateKey(transactions[n].created_at) >= DateKey(start)
            THEN transactions[n].amount ELSE 0)

IsDashboard == last.handler = "dashboard" /\ last.status = "render"

C1_BalanceIdentity ==
    IsDashboard =>
        LET v       == Get(last.view)
            income  == SumUpTo(next_tx_id - 1, last.user, "income", v.start)
            expense == SumUpTo(next_tx_id - 1, last.user, "expense", v.start)
        IN  /\ v.total_income = income
            /\ v.total_expense = expense
            /\ v.balance = Get(users[last.user].initial_balance) + income - expense

\* a dashboard of the week for a user with an income inside the window and
\* an expense before it
C1_Witness ==
    /\ IsDashboard
    /\ Get(last.view).period = "week"
    /\ Get(last.view).total_income > 0
    /\ \E id \in TxIds :
          /\ transactions[id].user_id = last.user
          /\ transactions[id].type = "expense"
          /\ DateKey(transactions[id].created_at) < DateKey(Get(last.view).start)

\* C6: once a user's initial_balance is set, no step changes it.
C6_BalanceSetOnce ==
    [][\A u \in UserIds :
          ~IsNone(users[u].initial_balance)
              => users'[u].initial_balance = users[u].initial_balance]_vars

\* C7: the top expenses of a dashboard are at most 5, are expenses of the
\* user dated inside the window, come in descending order of amount, and
\* no expense of the window that is left out is larger than one included.
C7_TopExpenses ==
    IsDashboard =>
        LET v      == Get(last.view)
            top    == v.top_expenses
            window == {id \in TxIds :
                          /\ transactions[id].user_id = last.user
                          /\ transactions[id].type = "expense"
                          /\ DateKey(transactions[id].created_at) >= DateKey(v.start)}
            shown  == {top[i] : i \in 1..Len(top)}
        IN  /\ Len(top) <= 5
            /\ shown \subseteq window
            /\ \A i, j \in 1..Len(top) :
                   i < j => transactions[top[i]].amount >= transactions[top[j]].amount
            /\ \A out \in window \ shown, in \in shown :
                   transactions[out].amount <= transactions[in].amount

\* five expenses shown, of different amounts, and a sixth expense of the
\* user inside the window that the list leaves out
C7_Witness ==
    /\ IsDashboard
    /\ Len(Get(last.view).top_expenses) = 5
    /\ LET top == Get(last.view).top_expenses
       IN  /\ transactions[top[1]].amount > transactions[top[5]].amount
           /\ \E id \in TxIds :
                 /\ transactions[id].user_id = last.user
                 /\ transactions[id].type = "expense"
                 /\ DateKey(transactions[id].created_at) >= DateKey(Get(last.view).start)
                 /\ \A i \in 1..5 : top[i] # id

\* C8: with period=all every transaction of the user is inside the window,
\* and the totals are the sums over all of the user's transactions.
RECURSIVE SumAllUpTo(_, _, _)
SumAllUpTo(n, u, type) ==
    IF n = 0 THEN 0
    ELSE SumAllUpTo(n - 1, u, type)
         + (IF n \in TxIds /\ transactions[n].user_id = u /\ transactions[n].type = type
            THEN transactions[n].amount ELSE 0)

C8_AllCoversEverything ==
    (IsDashboard /\ Get(last.view).period = "all") =>
        LET v == Get(last.view)
        IN  /\ \A id \in TxIds :
                   transactions[id].user_id = last.user
                       => DateKey(transactions[id].created_at) >= DateKey(v.start)
            /\ v.total_income = SumAllUpTo(next_tx_id - 1, last.user, "income")
            /\ v.total_expense = SumAllUpTo(next_tx_id - 1, last.user, "expense")

====
